---- MODULE Spec2Model ----
(***************************************************************************)
(* TimeSync: a weekly appointment scheduler.  The owner opens availability *)
(* windows, colleagues consume them as meetings, and an external oracle    *)
(* proposes a date/time/duration/title from free text.                     *)
(*                                                                         *)
(* Dates are JavaScript Date values: an instant, here in whole minutes     *)
(* since local midnight of calendar day 0 in UTC.  Local wall-clock fields *)
(* are obtained by adding the zone offset tz (minutes east of UTC).        *)
(* A "YYYY-MM-DD" string is <<day>> (a calendar day number), an "HH:mm"   *)
(* string is <<hours, minutes>>, and the empty string of either input is   *)
(* <<>>.  An optional value (undefined / null) is a sequence of length 0   *)
(* or 1.                                                                   *)
(***************************************************************************)
EXTENDS Integers, Sequences, FiniteSets, TLC

VARIABLES
    store,            \* localStorage[LOCAL_STORAGE_KEY], the persisted collection
    appointments,     \* App state: the collection last read from the store
    currentUserRole,  \* App state: "owner" | "colleague"
    currentDate,      \* App state: calendar day shown (the week containing it)
    isModalOpen,      \* App state
    selectedSlot,     \* App state: <<>> or <<[date, time, appointment]>>
    suggestionData,   \* App state: <<>> ({}) or <<[initialDate, ...]>>
    title, name, date, time, duration, error,   \* BookingModal state
    isProcessing, aiError,                      \* AIScheduler state
    pending,          \* oracle calls in flight, each with the closure it captured
    lastAlert,        \* the window.alert raised by the latest handler, "" if none
    now,              \* wall clock (instant)
    tz                \* offset of the local zone, minutes east of UTC

vars == <<store, appointments, currentUserRole, currentDate, isModalOpen,
          selectedSlot, suggestionData, title, name, date, time, duration,
          error, isProcessing, aiError, pending, lastAlert, now, tz>>

appVars   == <<appointments, currentUserRole, currentDate, isModalOpen,
               selectedSlot, suggestionData>>
modalVars == <<title, name, date, time, duration, error>>
aiVars    == <<isProcessing, aiError, pending>>

-----------------------------------------------------------------------------
(* Bounds of the model *)

MaxStored  == 2      \* records the store may hold
MaxPending == 1      \* oracle calls in flight at once
MaxInFlight == 2     \* oracle calls in flight at once, the scheduler taken alone
MaxTicks   == 1      \* steps the wall clock advances

MinutesPerDay == 24 * 60

(* Inputs the environment may supply *)

TZOffsets   == {-60}                    \* local UTC offsets
StartLocal  == 1 * MinutesPerDay + 9 * 60 + 45    \* the session starts on day 1 at 09:45 local
TickMinutes == 2 * 15                   \* the wall clock is observed every half hour
InputDays   == {<<1>>}                  \* days of the cells clicked / named by the oracle
InputTimes  == {<<10, 0>>, <<10, 30>>}  \* times of the cells clicked / named by the oracle
InputTitles == {"Sync"}                 \* text typed into the title input
InputNames  == {"Ann"}                  \* text typed into the name input
InputPrompts   == {"", "book"}          \* text in the prompt input when Enter is pressed
InputDurations == {45}                  \* options picked in the duration select
OracleDurations == {<<0>>, <<-30>>}   \* durationMinutes of a suggestion
OracleTitles    == {<<>>}              \* title of a suggestion

Roles == {"owner", "colleague"}

-----------------------------------------------------------------------------
(* Date arithmetic *)

\* new Date(year, month - 1, day): local midnight of a calendar day
LocalMidnight(d) == d[1] * MinutesPerDay - tz

\* the local calendar day of an instant (isSameDay / startOfWeek work on it)
LocalDay(t) == (t + tz) \div MinutesPerDay

\* format(t, 'HH:mm')
FormatHHmm(t) ==
    LET m == (t + tz) % MinutesPerDay IN <<m \div 60, m % 60>>

\* isSameDay(a, b)
isSameDay(a, b) == LocalDay(a) = LocalDay(b)

\* d.toISOString().split('T')[0]: the UTC calendar day of an instant
ISODate(t) == <<t \div MinutesPerDay>>

\* new Date(`${date}T${time}`): a date-time without offset is local time
ParseLocal(d, hm) == d[1] * MinutesPerDay + hm[1] * 60 + hm[2] - tz

\* slotDateTime = new Date(day); slotDateTime.setHours(hours, minutes, 0, 0)
SetHours(t, hm) == LocalDay(t) * MinutesPerDay + hm[1] * 60 + hm[2] - tz

-----------------------------------------------------------------------------
(* storageService: the persisted collection *)

\* Invalid Date: the time value NaN.  Every comparison with NaN is false; the
\* instants of the model are positive, and an invalid record carries NaN in
\* start and in end together, so that "x < apt.end" decides as in the code.
NaN == 0 - 1

\* what a JSON record may hold in a date field besides an ISO string: null, or
\* nothing (encoded in the shape of the ISO value, with a minute no clock shows)
JsonNull    == [day |-> 0, minute |-> 0 - 1]
JsonMissing == [day |-> 0, minute |-> 0 - 2]

\* Date.prototype.toJSON: the ISO string of the instant, null for an Invalid Date
ToISOString(t) ==
    IF t = NaN THEN JsonNull
    ELSE [day |-> t \div MinutesPerDay, minute |-> t % MinutesPerDay]

\* mutant: the time of day is lost on reading
FromISOString_dayOnly(iso) ==
    IF iso = JsonNull THEN 0
    ELSE IF iso = JsonMissing THEN NaN
    ELSE iso.day * MinutesPerDay

\* new Date(value): new Date(null) is the epoch, new Date(undefined) is invalid
FromISOString(iso) ==
    IF iso = JsonNull THEN 0
    ELSE IF iso = JsonMissing THEN NaN
    ELSE iso.day * MinutesPerDay + iso.minute

\* The text under LOCAL_STORAGE_KEY is [kind, items]: kind "absent" when
\* getItem returns null, "invalid" when JSON.parse throws on it, "scalar" when
\* it parses to a value that is no array, and "array" with the parsed items.
serialize(apts) ==
    [kind  |-> "array",
     items |-> [i \in 1..Len(apts) |->
                  [id |-> apts[i].id, title |-> apts[i].title,
                   start |-> ToISOString(apts[i].start), end |-> ToISOString(apts[i].end),
                   requesterName |-> apts[i].requesterName, type |-> apts[i].type]]]

\* JSON.parse(json) or data.map(...) throws
DeserializeThrows(json) == json.kind \in {"invalid", "scalar"}

\* the value deserialize returns when it does not throw
deserialize(json) ==
    [i \in 1..Len(json.items) |->
        [id |-> json.items[i].id, title |-> json.items[i].title,
         start |-> FromISOString(json.items[i].start),
         end |-> FromISOString(json.items[i].end),
         requesterName |-> json.items[i].requesterName, type |-> json.items[i].type]]

\* getAppointments on the text getItem returned
getAppointmentsFrom(stored) ==
    IF stored.kind = "absent" THEN <<>>
    ELSE IF DeserializeThrows(stored) THEN <<>>
    ELSE deserialize(stored)

getAppointments == getAppointmentsFrom(store)

\* current.findIndex(a => a.id === id), 0 when there is none
FindIndex(apts, id) ==
    IF \E i \in 1..Len(apts) : apts[i].id = id
    THEN CHOOSE i \in 1..Len(apts) :
            apts[i].id = id /\ \A j \in 1..(i - 1) : apts[j].id # id
    ELSE 0

\* the collection saveAppointment(appointment) writes and returns
saveAppointment(appointment) ==
    LET current == getAppointments
        index   == FindIndex(current, appointment.id)
    IN  IF index > 0
        THEN [current EXCEPT ![index] = appointment]
        ELSE Append(current, appointment)

RECURSIVE Filter(_, _)
Filter(apts, id) ==
    IF apts = <<>> THEN <<>>
    ELSE IF Head(apts).id # id
         THEN <<Head(apts)>> \o Filter(Tail(apts), id)
         ELSE Filter(Tail(apts), id)

\* mutant: the filter keeps what it should drop
deleteAppointment_inverted(id) == SelectSeq(getAppointments, LAMBDA a : a.id = id)

\* the collection deleteAppointment(id) writes and returns
deleteAppointment(id) == Filter(getAppointments, id)

\* mutant: open slots are not taken for collisions
checkAvailability_ignoringAvailability(start, end, excludeId) ==
    LET current == getAppointments IN
    ~ \E i \in 1..Len(current) :
        LET apt == current[i] IN
        /\ ~ (excludeId # <<>> /\ apt.id = excludeId[1])
        /\ apt.type # "availability"
        /\ start < apt.end
        /\ end > apt.start

\* mutant: only a record with the same start collides
checkAvailability_sameStartOnly(start, end, excludeId) ==
    LET current == getAppointments IN
    ~ \E i \in 1..Len(current) :
        LET apt == current[i] IN
        /\ ~ (excludeId # <<>> /\ apt.id = excludeId[1])
        /\ start = apt.start

\* mutant: ranges that touch at an endpoint collide
checkAvailability_closedRanges(start, end, excludeId) ==
    LET current == getAppointments IN
    ~ \E i \in 1..Len(current) :
        LET apt == current[i] IN
        /\ ~ (excludeId # <<>> /\ apt.id = excludeId[1])
        /\ start <= apt.end
        /\ end >= apt.start

\* excludeId is <<>> when the caller passes undefined
checkAvailability(start, end, excludeId) ==
    LET current == getAppointments IN
    ~ \E i \in 1..Len(current) :
        LET apt == current[i] IN
        /\ ~ (excludeId # <<>> /\ apt.id = excludeId[1])
        /\ start < apt.end
        /\ end > apt.start

-----------------------------------------------------------------------------
(* App: the calendar grid *)

WORKING_HOURS_start == 8
WORKING_HOURS_end   == 22

\* startOfWeek(currentDate, { weekStartsOn: 1 }); calendar day 0 is a Monday
startDate == LocalMidnight(<<currentDate - (currentDate % 7)>>)

\* Array.from({ length: 5 }).map((_, i) => addDays(startDate, i))
weekDays == {startDate + i * MinutesPerDay : i \in 0..4}

timeSlots ==
    UNION {{<<h, 0>>, <<h, 30>>} : h \in WORKING_HOURS_start..(WORKING_HOURS_end - 1)}

\* apts.find(pred), hits being the indices of the records that satisfy pred:
\* <<>> or <<the first such record>>
FindFirst(apts, hits) ==
    IF hits # {}
    THEN <<apts[CHOOSE i \in hits : \A j \in hits : i <= j]>>
    ELSE <<>>

\* renderSlot: the appointment starting at cell (day, time)
CellAppointment(apts, day, hm) ==
    FindFirst(apts, {i \in 1..Len(apts) :
                        isSameDay(apts[i].start, day) /\ FormatHHmm(apts[i].start) = hm})

\* renderSlot: the cell lies inside an appointment that started earlier that day
isCovered(apts, day, hm) ==
    /\ CellAppointment(apts, day, hm) = <<>>
    /\ \E i \in 1..Len(apts) :
          /\ isSameDay(apts[i].start, day)
          /\ SetHours(day, hm) > apts[i].start
          /\ SetHours(day, hm) < apts[i].end

\* the cells of the displayed grid the model clicks on: the occupied ones, and
\* the cells of the days and times the model's inputs name
Cells ==
    LET occupied == {<<LocalMidnight(<<LocalDay(appointments[i].start)>>),
                       FormatHHmm(appointments[i].start)>> : i \in 1..Len(appointments)}
        named    == {LocalMidnight(d) : d \in InputDays} \X InputTimes
    IN  {c \in occupied \cup named : c[1] \in weekDays /\ c[2] \in timeSlots}

-----------------------------------------------------------------------------
(* BookingModal *)

isBookingOpenSlot(existing) == existing # <<>> /\ existing[1].type = "availability"

isOwnerCreating(role, existing) == role = "owner" /\ existing = <<>>

\* mutant: the lock is tied to the wrong role
isColleagueBooking_wrongRole(role, existing) == role = "owner" /\ isBookingOpenSlot(existing)

isColleagueBooking(role, existing) == role = "colleague" /\ isBookingOpenSlot(existing)

\* the props App passes to the modal
existingAppointment(slot) == IF slot # <<>> THEN slot[1].appointment ELSE <<>>

initialDate(slot, sugg) ==
    IF slot # <<>> THEN <<slot[1].date>>
    ELSE IF sugg # <<>> THEN <<sugg[1].initialDate>> ELSE <<>>

initialTime(slot, sugg) ==
    IF slot # <<>> /\ slot[1].time # <<>> THEN slot[1].time
    ELSE IF sugg # <<>> THEN sugg[1].initialTime ELSE <<>>

\* initialTitle = ''
initialTitle(sugg) ==
    IF sugg # <<>> /\ sugg[1].initialTitle # <<>> THEN sugg[1].initialTitle[1] ELSE ""

\* initialDuration = 30
initialDuration(sugg) ==
    IF sugg # <<>> /\ sugg[1].initialDuration # <<>> THEN sugg[1].initialDuration[1] ELSE 30

\* duration inherited from the appointment the form was opened on
InheritedDuration(apt) == apt.end - apt.start

\* the useEffect that syncs the form with the props while the modal is open
SyncForm(role, slot, sugg) ==
    LET existing == existingAppointment(slot) IN
    /\ date' = (IF initialDate(slot, sugg) # <<>>
                THEN ISODate(initialDate(slot, sugg)[1]) ELSE date)
    /\ time' = (IF initialTime(slot, sugg) # <<>> THEN initialTime(slot, sugg) ELSE time)
    /\ IF existing # <<>>
       THEN /\ duration' = InheritedDuration(existing[1])
            /\ IF role = "colleague" /\ isBookingOpenSlot(existing)
               THEN title' = "" /\ name' = ""
               ELSE title' = existing[1].title /\ name' = existing[1].requesterName
       ELSE /\ title' = (IF initialTitle(sugg) # "" THEN initialTitle(sugg)
                         ELSE IF role = "owner" THEN "Open for Booking" ELSE "")
            /\ name' = (IF role = "owner" THEN "Me" ELSE "")
            /\ duration' = (IF initialDuration(sugg) # 0
                            THEN initialDuration(sugg) ELSE duration)
    /\ error' = ""

-----------------------------------------------------------------------------
(* Initial state: the page has mounted on an empty store *)

Init ==
    /\ tz \in TZOffsets
    /\ now = StartLocal - tz
    /\ store = [kind |-> "absent", items |-> <<>>]
    /\ appointments = <<>>
    /\ currentUserRole = "colleague"
    /\ currentDate = LocalDay(now)
    /\ isModalOpen = FALSE
    /\ selectedSlot = <<>>
    /\ suggestionData = <<>>
    /\ title = "" /\ name = "" /\ date = <<>> /\ time = <<>>
    /\ duration = 30
    /\ error = ""
    /\ isProcessing = FALSE /\ aiError = ""
    /\ pending = <<>>
    /\ lastAlert = ""

\* the wall clock advances
Tick ==
    /\ now + tz < StartLocal + MaxTicks * TickMinutes
    /\ now' = now + TickMinutes
    /\ UNCHANGED <<store, appVars, modalVars, aiVars, lastAlert, tz>>

-----------------------------------------------------------------------------
(* App handlers.  The open modal is an overlay over the whole page, so the   *)
(* page's own controls are reachable only while it is closed.                *)

setCurrentUserRole(role) ==
    /\ ~ isModalOpen
    /\ currentUserRole' = role
    /\ lastAlert' = ""
    /\ UNCHANGED <<store, appointments, currentDate, isModalOpen, selectedSlot,
                   suggestionData, modalVars, aiVars, now, tz>>

\* setSelectedSlot(slot); setSuggestionData(sugg); setIsModalOpen(true), and the
\* modal's effect that follows the render
OpenModal(slot, sugg) ==
    /\ selectedSlot' = slot
    /\ suggestionData' = sugg
    /\ isModalOpen' = TRUE
    /\ SyncForm(currentUserRole, slot, sugg)

\* mutant: the empty-slot branch does not look at the role
SlotClickOutcome_anyRole(role, day, hm, existingApt) ==
    IF SetHours(day, hm) < now THEN "return"
    ELSE IF existingApt # <<>>
         THEN (IF existingApt[1].type = "availability" THEN "open" ELSE "return")
         ELSE "open"

\* what handleSlotClick(date, time, existingApt) does: "open", "alert" or "return"
SlotClickOutcome(role, day, hm, existingApt) ==
    IF SetHours(day, hm) < now THEN "return"
    ELSE IF existingApt # <<>>
         THEN (IF existingApt[1].type = "availability" THEN "open" ELSE "return")
         ELSE IF role = "colleague" THEN "alert" ELSE "open"

NotOwnerAlert == "Only the owner can open new time slots. Please select a green 'Available' slot."

\* a click on a rendered cell of the grid (a covered cell renders nothing)
handleSlotClick(day, hm) ==
    LET existingApt == CellAppointment(appointments, day, hm)
        outcome     == SlotClickOutcome(currentUserRole, day, hm, existingApt)
    IN
    /\ ~ isModalOpen
    /\ ~ isCovered(appointments, day, hm)
    /\ IF outcome = "open"
       THEN /\ OpenModal(<<[date |-> day, time |-> hm, appointment |-> existingApt]>>, <<>>)
            /\ lastAlert' = ""
       ELSE /\ lastAlert' = (IF outcome = "alert" THEN NotOwnerAlert ELSE "")
            /\ UNCHANGED <<isModalOpen, selectedSlot, suggestionData, modalVars>>
    /\ UNCHANGED <<store, appointments, currentUserRole, currentDate, aiVars,
                   now, tz>>

\* the trash button of an occupied cell, rendered for the owner only
handleDelete(day, hm, confirmed) ==
    LET apt == CellAppointment(appointments, day, hm) IN
    /\ ~ isModalOpen
    /\ currentUserRole = "owner"
    /\ apt # <<>>
    /\ IF confirmed
       THEN /\ store' = serialize(deleteAppointment(apt[1].id))
            /\ appointments' = getAppointmentsFrom(store')
       ELSE UNCHANGED <<store, appointments>>
    /\ lastAlert' = ""
    /\ UNCHANGED <<currentUserRole, currentDate, isModalOpen, selectedSlot,
                   suggestionData, modalVars, aiVars, now, tz>>

-----------------------------------------------------------------------------
(* BookingModal handlers *)

DurationOptions == {30, 45, 60, 90, 120}

\* the model types into the title and name inputs while they are blank
setTitle(v) ==
    /\ isModalOpen
    /\ title = ""
    /\ title' = v
    /\ UNCHANGED <<store, appVars, name, date, time, duration, error, aiVars,
                   lastAlert, now, tz>>

\* the name input is read-only while the owner creates a slot
setName(v) ==
    /\ isModalOpen
    /\ ~ isOwnerCreating(currentUserRole, existingAppointment(selectedSlot))
    /\ name = ""
    /\ name' = v
    /\ UNCHANGED <<store, appVars, title, date, time, duration, error, aiVars,
                   lastAlert, now, tz>>

\* the duration select is disabled while a colleague books a slot
setDuration(v) ==
    /\ isModalOpen
    /\ ~ isColleagueBooking(currentUserRole, existingAppointment(selectedSlot))
    /\ duration' = v
    /\ UNCHANGED <<store, appVars, title, name, date, time, error, aiVars,
                   lastAlert, now, tz>>

\* the date input is disabled while a colleague books a slot
setDate(v) ==
    /\ isModalOpen
    /\ ~ isColleagueBooking(currentUserRole, existingAppointment(selectedSlot))
    /\ date' = v
    /\ UNCHANGED <<store, appVars, title, name, time, duration, error, aiVars,
                   lastAlert, now, tz>>

\* the time input is disabled while a colleague books a slot
setTime(v) ==
    /\ isModalOpen
    /\ ~ isColleagueBooking(currentUserRole, existingAppointment(selectedSlot))
    /\ time' = v
    /\ UNCHANGED <<store, appVars, title, name, date, duration, error, aiVars,
                   lastAlert, now, tz>>

\* A closed modal renders nothing and its effect does not run; every way of
\* opening it sets selectedSlot, so the next sync overwrites the selection, the
\* suggestion data and every form field except duration before anything reads
\* them.  The model keeps one representative of those unread values.
Unmounted ==
    /\ selectedSlot' = <<>>
    /\ suggestionData' = <<>>
    /\ title' = "" /\ name' = "" /\ date' = <<>> /\ time' = <<>>
    /\ error' = ""

\* the Cancel and X buttons
onClose ==
    /\ isModalOpen
    /\ isModalOpen' = FALSE
    /\ Unmounted
    /\ UNCHANGED <<store, appointments, currentUserRole, currentDate, duration,
                   aiVars, lastAlert, now, tz>>

\* the type handleSubmit gives the record
SubmitType(role, existing) ==
    IF role = "owner" /\ existing = <<>> THEN "availability" ELSE "meeting"

\* mutant: the validation without the comparison with the clock
SubmitError_noPastCheck(existing) ==
    IF date = <<>> \/ time = <<>> \/ title = "" \/ name = ""
    THEN "All fields are required."
    ELSE LET startDateTime == ParseLocal(date, time)
             endDateTime   == startDateTime + duration
         IN  IF ~ checkAvailability(startDateTime, endDateTime,
                                    IF existing # <<>> THEN <<existing[1].id>> ELSE <<>>)
             THEN "This time slot overlaps with an existing appointment."
             ELSE ""

\* the validation of handleSubmit: "" when the record is to be saved
SubmitError(existing) ==
    IF date = <<>> \/ time = <<>> \/ title = "" \/ name = ""
    THEN "All fields are required."
    ELSE LET startDateTime == ParseLocal(date, time)
             endDateTime   == startDateTime + duration
         IN  IF startDateTime < now
             THEN "Cannot book in the past."
             ELSE IF ~ checkAvailability(startDateTime, endDateTime,
                                         IF existing # <<>> THEN <<existing[1].id>> ELSE <<>>)
                  THEN "This time slot overlaps with an existing appointment."
                  ELSE ""

\* crypto.randomUUID(): an identifier that no record, no selection and no call
\* in flight holds (the least one, identifiers being interchangeable)
IdsInUse ==
    {getAppointments[i].id : i \in 1..Len(getAppointments)}
    \cup {existingAppointment(selectedSlot)[i].id : i \in 1..Len(existingAppointment(selectedSlot))}
    \cup UNION {{pending[k].appointments[i].id : i \in 1..Len(pending[k].appointments)} :
                k \in 1..Len(pending)}

randomUUID == CHOOSE id \in 1..(Cardinality(IdsInUse) + 1) : id \notin IdsInUse

\* the record handleSubmit builds
SubmitRecord(existing) ==
    [id            |-> IF existing # <<>> THEN existing[1].id ELSE randomUUID,
     title         |-> title,
     start         |-> ParseLocal(date, time),
     end           |-> ParseLocal(date, time) + duration,
     requesterName |-> name,
     type          |-> SubmitType(currentUserRole, existing)]

handleSubmit ==
    LET existing == existingAppointment(selectedSlot)
        err      == SubmitError(existing)
    IN
    /\ isModalOpen
    /\ IF err # ""
       THEN /\ error' = err
            /\ UNCHANGED <<store, appointments, isModalOpen, selectedSlot,
                           suggestionData, title, name, date, time>>
       ELSE /\ Len(saveAppointment(SubmitRecord(existing))) <= MaxStored
            /\ store' = serialize(saveAppointment(SubmitRecord(existing)))
            /\ appointments' = getAppointmentsFrom(store')
            /\ isModalOpen' = FALSE
            /\ Unmounted
    /\ UNCHANGED <<currentUserRole, currentDate, duration, aiVars, lastAlert, now, tz>>

-----------------------------------------------------------------------------
(* AIScheduler and the suggestion hand-off *)

\* what the oracle may answer: null, or a guess whose fields may be absent
OracleAnswers ==
    {<<>>} \cup
    {<<[date |-> d, startTime |-> t, durationMinutes |-> n, title |-> x]>> :
        d \in InputDays \cup {<<>>}, t \in InputTimes \cup {<<>>},
        n \in OracleDurations, x \in OracleTitles}

\* apts.filter(pred)
RECURSIVE SelectSeq2(_, _)
SelectSeq2(apts, type) ==
    IF apts = <<>> THEN <<>>
    ELSE IF Head(apts).type = type
         THEN <<Head(apts)>> \o SelectSeq2(Tail(apts), type)
         ELSE SelectSeq2(Tail(apts), type)

\* What a call in flight has captured of the render that issued it: the role,
\* and of the appointments the part handleAISuggestion reads (the availability
\* records, read only when the role is colleague). superseded is history the
\* program does not keep: a later request has been issued since
Closure(role, apts) ==
    [role |-> role,
     appointments |-> IF role = "colleague" THEN SelectSeq2(apts, "availability") ELSE <<>>,
     superseded |-> FALSE]

\* the calls in flight once one more request is issued
Superseded(calls) == [j \in 1..Len(calls) |-> [calls[j] EXCEPT !.superseded = TRUE]]

\* handleSmartSchedule up to its await, on the text typed into the prompt input:
\* the call captures the handleAISuggestion of the current render, with the role
\* and the appointments of that render
handleSmartSchedule(prompt) ==
    /\ ~ isModalOpen
    /\ prompt # ""
    /\ isProcessing' = TRUE
    /\ aiError' = ""
    /\ pending' = Append(Superseded(pending), Closure(currentUserRole, appointments))
    /\ lastAlert' = ""
    /\ UNCHANGED <<store, appVars, modalVars, now, tz>>

\* the availability a colleague's suggestion must match
TargetApt(apts, suggestedDate, startTime) ==
    FindFirst(apts, {i \in 1..Len(apts) :
                        /\ apts[i].type = "availability"
                        /\ isSameDay(apts[i].start, suggestedDate)
                        /\ FormatHHmm(apts[i].start) = startTime})

NoMatchingSlotAlert == "Sorry, there is no open slot available."

\* handleAISuggestion as captured by the request: closure holds its role and appointments
handleAISuggestion(closure, suggestion) ==
    LET suggestedDate == LocalMidnight(suggestion.date)
        targetApt     == IF closure.role = "colleague"
                         THEN TargetApt(closure.appointments, suggestedDate, suggestion.startTime)
                         ELSE <<>>
    IN
    IF closure.role = "colleague" /\ targetApt = <<>>
    THEN /\ lastAlert' = NoMatchingSlotAlert
         /\ UNCHANGED <<currentDate, isModalOpen, selectedSlot, suggestionData, modalVars>>
    ELSE /\ currentDate' = LocalDay(suggestedDate)
         /\ OpenModal(<<[date |-> suggestedDate, time |-> suggestion.startTime,
                         appointment |-> targetApt]>>,
                      <<[initialDate     |-> suggestedDate,
                         initialTime     |-> suggestion.startTime,
                         initialTitle    |-> suggestion.title,
                         initialDuration |-> suggestion.durationMinutes]>>)
         /\ lastAlert' = ""

\* handleSmartSchedule after its await: the i-th call in flight resolves with answer
OracleResolve(i, answer) ==
    /\ i \in 1..Len(pending)
    /\ pending' = [j \in 1..(Len(pending) - 1) |-> IF j < i THEN pending[j] ELSE pending[j + 1]]
    /\ isProcessing' = FALSE
    /\ IF answer # <<>> /\ answer[1].date # <<>> /\ answer[1].startTime # <<>>
       THEN /\ handleAISuggestion(pending[i], answer[1])
            /\ UNCHANGED aiError
       ELSE /\ aiError' = "I couldn't quite understand that date or time."
            /\ lastAlert' = ""
            /\ UNCHANGED <<currentDate, isModalOpen, selectedSlot, suggestionData,
                           modalVars>>
    /\ UNCHANGED <<store, appointments, currentUserRole, now, tz>>

-----------------------------------------------------------------------------

Next ==
    \/ Tick
    \/ \E role \in Roles : setCurrentUserRole(role)
    \/ \E c \in Cells : handleSlotClick(c[1], c[2])
    \/ \E c \in Cells, confirmed \in BOOLEAN : handleDelete(c[1], c[2], confirmed)
    \/ \E v \in InputTitles : setTitle(v)
    \/ \E v \in InputNames : setName(v)
    \/ \E v \in InputDurations : setDuration(v)
    \/ onClose
    \/ handleSubmit
    \/ \E prompt \in InputPrompts : Len(pending) < MaxPending /\ handleSmartSchedule(prompt)
    \/ \E i \in 1..MaxPending, answer \in OracleAnswers : OracleResolve(i, answer)

Spec == Init /\ [][Next]_vars

-----------------------------------------------------------------------------
(* The scheduler by itself: overlapping requests, and how the oracle call ends *)

\* process.env.API_KEY is set in the build: without it AIScheduler renders no
\* prompt input and no request is made
hasApiKey == TRUE

\* how ai.models.generateContent ends: it throws, or it returns a response
\* whose text is empty, is not JSON, or is the JSON of answer
OracleOutcomes ==
    {[kind |-> k, answer |-> <<>>] : k \in {"throws", "empty", "not JSON"}}
    \cup {[kind |-> "text", answer |-> a] : a \in OracleAnswers}

\* what parseBookingRequest returns; <<>> is null
parseBookingRequest(outcome) ==
    IF ~ hasApiKey THEN <<>>
    ELSE IF outcome.kind = "throws" THEN <<>>
    ELSE IF outcome.kind = "empty" THEN <<>>
    ELSE IF outcome.kind = "not JSON" THEN <<>>
    ELSE outcome.answer

\* the promise of the i-th call in flight settles
OracleSettles(i, outcome) == OracleResolve(i, parseBookingRequest(outcome))

\* the promise of the i-th call in flight never settles: nothing bounds the
\* wait, and the rest of handleSmartSchedule does not run for it
OracleNeverSettles(i) ==
    /\ i \in 1..Len(pending)
    /\ pending' = [j \in 1..(Len(pending) - 1) |-> IF j < i THEN pending[j] ELSE pending[j + 1]]
    /\ UNCHANGED <<store, appVars, modalVars, isProcessing, aiError, lastAlert, now, tz>>

NextOracle ==
    \/ \E role \in Roles : setCurrentUserRole(role)
    \/ onClose
    \/ \E prompt \in InputPrompts : Len(pending) < MaxInFlight /\ handleSmartSchedule(prompt)
    \/ \E i \in 1..MaxInFlight, outcome \in OracleOutcomes : OracleSettles(i, outcome)
    \/ \E i \in 1..MaxInFlight : OracleNeverSettles(i)

\* a promise that settles is followed by the rest of handleSmartSchedule
SpecOracle ==
    /\ Init
    /\ [][NextOracle]_vars
    /\ WF_vars(\E i \in 1..MaxInFlight, outcome \in OracleOutcomes : OracleSettles(i, outcome))

-----------------------------------------------------------------------------
(* The storage service by itself: any caller may read, save and delete *)

StorageIds    == 1..2
StorageStarts == {StartLocal + 60, StartLocal + 90}
StorageLens   == {30, 60}

\* the appointments a caller may hand to saveAppointment
StorageRecords ==
    {[id |-> i, title |-> "Sync", start |-> b, end |-> b + n,
      requesterName |-> "Ann", type |-> k] :
        i \in StorageIds, b \in StorageStarts, n \in StorageLens,
        k \in {"availability", "meeting"}}

\* an appointment whose time text did not parse: new Date(`${date}T${time}`) is
\* an Invalid Date, and so is the end computed from it
InvalidDateRecord ==
    [id |-> 2, title |-> "Sync", start |-> NaN, end |-> NaN,
     requesterName |-> "Ann", type |-> "availability"]

StorageInputs == StorageRecords \cup {InvalidDateRecord}

\* setAppointments(getAppointments())
refreshAppointments ==
    /\ appointments' = getAppointments
    /\ UNCHANGED <<store, currentUserRole, currentDate, isModalOpen, selectedSlot,
                   suggestionData, modalVars, aiVars, lastAlert, now, tz>>

\* a call of saveAppointment(appointment)
callSaveAppointment(appointment) ==
    /\ Len(saveAppointment(appointment)) <= MaxStored
    /\ store' = serialize(saveAppointment(appointment))
    /\ UNCHANGED <<appVars, modalVars, aiVars, lastAlert, now, tz>>

\* a call of deleteAppointment(id)
callDeleteAppointment(id) ==
    /\ store' = serialize(deleteAppointment(id))
    /\ UNCHANGED <<appVars, modalVars, aiVars, lastAlert, now, tz>>

NextStorage ==
    \/ refreshAppointments
    \/ \E appointment \in StorageInputs : callSaveAppointment(appointment)
    \/ \E id \in StorageIds \cup {3} : callDeleteAppointment(id)

SpecStorage == Init /\ [][NextStorage]_vars

-----------------------------------------------------------------------------
(* The storage service started on a payload it did not write *)

\* a stored record without start and end fields
RecordWithoutDates(i) ==
    [id |-> i, title |-> "Sync", start |-> JsonMissing, end |-> JsonMissing,
     requesterName |-> "Ann", type |-> "availability"]

\* a stored record whose end field is absent, the start being a timestamp
RecordWithoutEnd(i) ==
    [id |-> i, title |-> "Sync", start |-> ToISOString(StartLocal + 60),
     end |-> JsonMissing, requesterName |-> "Ann", type |-> "meeting"]

\* text that is not JSON, JSON that is not an array, and arrays of records
\* whose start or end is missing
MalformedPayloads ==
    {[kind |-> "invalid", items |-> <<>>],
     [kind |-> "scalar",  items |-> <<>>],
     [kind |-> "array",   items |-> <<RecordWithoutDates(1)>>],
     [kind |-> "array",   items |-> <<RecordWithoutEnd(1)>>],
     [kind |-> "array",   items |-> <<RecordWithoutEnd(2), RecordWithoutDates(1)>>]}

InitPayload ==
    /\ tz \in TZOffsets
    /\ now = StartLocal - tz
    /\ store \in MalformedPayloads
    /\ appointments = <<>>
    /\ currentUserRole = "colleague"
    /\ currentDate = LocalDay(now)
    /\ isModalOpen = FALSE
    /\ selectedSlot = <<>>
    /\ suggestionData = <<>>
    /\ title = "" /\ name = "" /\ date = <<>> /\ time = <<>>
    /\ duration = 30
    /\ error = ""
    /\ isProcessing = FALSE /\ aiError = ""
    /\ pending = <<>>
    /\ lastAlert = ""

SpecPayload == InitPayload /\ [][NextStorage]_vars

-----------------------------------------------------------------------------
(* Vocabulary of the properties *)

Stored     == getAppointments
StoredNext == getAppointmentsFrom(store')

\* 4.1: overlaps(other) iff start < other.end && end > other.start
Overlaps(a, b) == a.start < b.end /\ a.end > b.start

formExisting == existingAppointment(selectedSlot)

\* the record of the store that has the identifier of the form's appointment
InStore(apt) == \E i \in 1..Len(Stored) : Stored[i] = apt

\* a step of handleSubmit that saves a record
SubmitSucceeds == handleSubmit /\ SubmitError(formExisting) = ""

\* a colleague's submission on an availability record that stands in the store
\* the start and the end the form's fields denote
formStart == ParseLocal(date, time)
formEnd   == formStart + duration

\* the form's range overlaps a record of the store
FormOverlapsStored ==
    \E i \in 1..Len(Stored) : Overlaps([start |-> formStart, end |-> formEnd], Stored[i])

RequiredError == "All fields are required."
PastError     == "Cannot book in the past."
OverlapError  == "This time slot overlaps with an existing appointment."

\* the cell shows neither a record nor the continuation of one
EmptyCell(c) ==
    /\ CellAppointment(appointments, c[1], c[2]) = <<>>
    /\ ~ isCovered(appointments, c[1], c[2])

ColleagueBooksAvailable ==
    /\ SubmitSucceeds
    /\ currentUserRole = "colleague"
    /\ isBookingOpenSlot(formExisting)
    /\ InStore(formExisting[1])

-----------------------------------------------------------------------------
(* C1: in every reachable state no two distinct stored appointments overlap:
   for records a # b of the store, not (a.start < b.end and a.end > b.start). *)
C1_NoOverlap ==
    \A i, j \in 1..Len(Stored) : i # j => ~ Overlaps(Stored[i], Stored[j])

\* two records stand side by side in the store, the second starting where the first ends
C1_Witness ==
    \E i, j \in 1..Len(Stored) :
        /\ Stored[i].start < Stored[i].end
        /\ Stored[j].start = Stored[i].end
        /\ Stored[j].start < Stored[j].end

(* C2: every stored appointment satisfies start < end, whatever duration
   reaches the booking form. *)
C2_StartBeforeEnd ==
    \A i \in 1..Len(Stored) : Stored[i].start < Stored[i].end

(* C3: a stored meeting is never modified: over every step each meeting record
   is either still in the store with all fields unchanged, or gone through a
   delete the owner confirmed. *)
C3_MeetingImmutable ==
    [][\A i \in 1..Len(Stored) :
          Stored[i].type = "meeting" =>
             \/ \E j \in 1..Len(StoredNext) : StoredNext[j] = Stored[i]
             \/ /\ \A j \in 1..Len(StoredNext) : StoredNext[j].id # Stored[i].id
                /\ currentUserRole = "owner"
                /\ \E c \in Cells : handleDelete(c[1], c[2], TRUE)]_vars

(* C4: when a colleague's booking of an Available cell succeeds, the store has
   as many records as before, the availability's identifier now names one
   meeting carrying the form's title and name, and at most one record starts
   where the availability started. *)
C4_ReplaceInPlace ==
    [][ColleagueBooksAvailable =>
          /\ Len(StoredNext) = Len(Stored)
          /\ Cardinality({j \in 1..Len(StoredNext) : StoredNext[j].id = formExisting[1].id}) = 1
          /\ \A j \in 1..Len(StoredNext) :
                StoredNext[j].id = formExisting[1].id =>
                   /\ StoredNext[j].type = "meeting"
                   /\ StoredNext[j].title = title
                   /\ StoredNext[j].requesterName = name
          /\ Cardinality({j \in 1..Len(StoredNext) :
                             StoredNext[j].start = formExisting[1].start}) <= 1]_vars

(* C5: a successful submission made while the acting role is colleague consumes
   an availability record that is in the store at that moment. *)
C5_ColleagueConsumes ==
    [][(SubmitSucceeds /\ currentUserRole = "colleague") =>
          /\ isBookingOpenSlot(formExisting)
          /\ InStore(formExisting[1])]_vars

(* C6: when the owner submits a new availability whose range overlaps a stored
   record of either type, the submission is rejected with the overlap error
   and the store is as before. *)
C6_OverlapRejected ==
    [][(/\ handleSubmit
        /\ currentUserRole = "owner" /\ formExisting = <<>>
        /\ date # <<>> /\ time # <<>>
        /\ FormOverlapsStored)
       => (error' = OverlapError /\ store' = store)]_vars

(* C6 as amended: when the owner submits a new availability with every field
   filled, a start that has not elapsed and a range that overlaps a stored
   record of either type, the submission is rejected with the overlap error,
   the form stays open and the store is as before; when the start has elapsed
   the rejection carries the past-slot error instead, the store again as before. *)
C6_OverlapRejectedUnlessPast ==
    [][(/\ handleSubmit
        /\ currentUserRole = "owner" /\ formExisting = <<>>
        /\ date # <<>> /\ time # <<>> /\ title # "" /\ name # ""
        /\ FormOverlapsStored)
       => /\ store' = store
          /\ isModalOpen'
          /\ error' = IF formStart < now THEN PastError ELSE OverlapError]_vars

\* the owner's new-availability form shows the overlap error
C6_Witness ==
    /\ isModalOpen
    /\ currentUserRole = "owner" /\ formExisting = <<>>
    /\ error = OverlapError
    /\ FormOverlapsStored

(* C7: while the role is colleague every rendered Empty cell answers a click
   with the NotOwner notice. *)
C7_EmptyClickNotOwner ==
    \A c \in Cells :
        (currentUserRole = "colleague" /\ ~ isModalOpen /\ EmptyCell(c))
        => SlotClickOutcome(currentUserRole, c[1], c[2], <<>>) = "alert"

(* C7 as amended: when the role is colleague a click on an Empty cell never
   opens the form and leaves the store, the selected slot and the modal state
   unchanged; the NotOwner notice is given when the cell's start has not
   elapsed, and a click on an elapsed cell is ignored without a notice. *)
C7_EmptyClickRejected ==
    /\ []((currentUserRole = "colleague" /\ ~ isModalOpen)
          => \A c \in Cells :
                EmptyCell(c)
                => SlotClickOutcome(currentUserRole, c[1], c[2], <<>>)
                      = IF SetHours(c[1], c[2]) < now THEN "return" ELSE "alert")
    /\ [][(currentUserRole = "colleague" /\ ~ isModalOpen)
          => \A c \in Cells :
                (EmptyCell(c) /\ handleSlotClick(c[1], c[2]))
                => /\ UNCHANGED <<store, appointments, selectedSlot, suggestionData,
                                  isModalOpen, modalVars>>
                   /\ (SetHours(c[1], c[2]) >= now => lastAlert' = NotOwnerAlert)]_vars

\* a colleague has been told that only the owner opens slots, and no form is open
C7_Witness ==
    /\ currentUserRole = "colleague"
    /\ lastAlert = NotOwnerAlert
    /\ ~ isModalOpen /\ selectedSlot = <<>>

(* C8: when the owner edits a stored availability and submits, the record of
   that identifier is still of type availability. *)
C8_EditKeepsAvailability ==
    [][(/\ SubmitSucceeds
        /\ currentUserRole = "owner"
        /\ isBookingOpenSlot(formExisting)
        /\ InStore(formExisting[1]))
       => \A j \in 1..Len(StoredNext) :
             StoredNext[j].id = formExisting[1].id => StoredNext[j].type = "availability"]_vars

(* C9: a colleague who books an Available cell may choose a duration: while
   the booking form is open the duration control accepts a choice. *)
C9_ColleagueChoosesDuration ==
    (isModalOpen /\ isColleagueBooking(currentUserRole, formExisting))
    => \E v \in DurationOptions : ENABLED setDuration(v)

(* C9 as amended: a colleague who books an Available cell cannot choose the
   duration; the form holds the availability's own duration and the resulting
   meeting lasts as long as the availability did. *)
C9_ColleagueInheritsDuration ==
    /\ []((isModalOpen /\ currentUserRole = "colleague" /\ isBookingOpenSlot(formExisting))
          => /\ duration = formExisting[1].end - formExisting[1].start
             /\ \A v \in DurationOptions : ~ ENABLED setDuration(v))
    /\ [][ColleagueBooksAvailable
          => \A j \in 1..Len(StoredNext) :
                StoredNext[j].id = formExisting[1].id
                => StoredNext[j].end - StoredNext[j].start
                      = formExisting[1].end - formExisting[1].start]_vars

\* a colleague's booking form stands open on a stored availability of 45
\* minutes, filled in and ready to be saved, holding 45 and not the default 30
C9_Witness ==
    /\ isModalOpen
    /\ currentUserRole = "colleague"
    /\ isBookingOpenSlot(formExisting) /\ InStore(formExisting[1])
    /\ formExisting[1].end - formExisting[1].start = 45
    /\ duration = 45
    /\ SubmitError(formExisting) = ""

(* C10: a submission whose start has elapsed is rejected with the past-slot
   error and the store unchanged. *)
C10_PastRejected ==
    [][(handleSubmit /\ date # <<>> /\ time # <<>> /\ formStart < now)
       => (error' = PastError /\ store' = store)]_vars

(* C10 as amended: a record is written only when its start is not before the
   clock; a submission whose start has elapsed is rejected with the store
   unchanged and the form still open, with the past-slot error when every
   field is filled and the required-fields error when one is blank; a click
   on a cell whose start has elapsed opens no form for either role. *)
C10_NoWriteInThePast ==
    [][/\ store' # store
          => \A j \in 1..Len(StoredNext) :
                (\A i \in 1..Len(Stored) : Stored[i] # StoredNext[j])
                => StoredNext[j].start >= now
       /\ (isModalOpen /\ date # <<>> /\ time # <<>> /\ formStart < now /\ handleSubmit)
          => /\ store' = store
             /\ isModalOpen'
             /\ error' = IF title = "" \/ name = "" THEN RequiredError ELSE PastError
       /\ ~ isModalOpen
          => \A c \in Cells :
                (SetHours(c[1], c[2]) < now /\ handleSlotClick(c[1], c[2]))
                => UNCHANGED <<store, isModalOpen, selectedSlot>>]_vars

\* a form whose start has elapsed has been submitted and shows the past-slot error
C10_Witness ==
    /\ isModalOpen
    /\ error = PastError
    /\ formStart < now

-----------------------------------------------------------------------------
(* Vocabulary of the suggestion properties *)

\* the answer carries a date and a start time
Usable(answer) == answer # <<>> /\ answer[1].date # <<>> /\ answer[1].startTime # <<>>

\* the answer names a cell at which the store holds no availability record
NoStoredMatch(answer) ==
    TargetApt(Stored, LocalMidnight(answer[1].date), answer[1].startTime) = <<>>

(* C11: when the role is colleague and a suggestion with date and startTime
   matches no stored availability record by day and start time, the suggestion
   is rejected with the no-matching-slot notice and the store, the displayed
   week, the selected slot and the modal state are unchanged. *)
C11_NoMatchRejected ==
    [][(currentUserRole = "colleague" /\ pending # <<>>)
       => \A answer \in OracleAnswers :
             (/\ Usable(answer)
              /\ NoStoredMatch(answer)
              /\ \E i \in 1..Len(pending) : OracleResolve(i, answer))
             => /\ lastAlert' = NoMatchingSlotAlert
                /\ UNCHANGED <<store, currentDate, selectedSlot, suggestionData,
                               isModalOpen, modalVars>>]_vars

-----------------------------------------------------------------------------
(* Vocabulary of the storage properties *)

\* the collection c without the records of identifier id, the others in order
Without(c, id) == SelectSeq(c, LAMBDA a : a.id # id)

\* what is stored after deleteAppointment(id) has run twice
DeletedTwice(id) == Without(getAppointmentsFrom(serialize(deleteAppointment(id))), id)

(* C12: deleteAppointment(id) leaves the store equal to the previous collection
   without the record of that id, the other records unchanged and in order;
   with no record of that id the collection is unchanged, and deleting twice
   equals deleting once. *)
C12_DeleteFrame ==
    /\ [](\A id \in StorageIds \cup {3} :
            /\ deleteAppointment(id) = Without(Stored, id)
            /\ DeletedTwice(id) = deleteAppointment(id)
            /\ (\A i \in 1..Len(Stored) : Stored[i].id # id)
               => deleteAppointment(id) = Stored)
    /\ [][\A id \in StorageIds \cup {3} :
            callDeleteAppointment(id) => StoredNext = Without(Stored, id)]_vars

\* the store held two records when it was last read and has lost the first of
\* them since, the second being all it holds now
C12_Witness ==
    /\ Len(appointments) = 2
    /\ Len(Stored) = 1
    /\ Stored[1] = appointments[2]
    /\ Stored[1].id # appointments[1].id

\* every start and end of the collection is an instant
ValidInstants(c) == \A i \in 1..Len(c) : c[i].start # NaN /\ c[i].end # NaN

\* what getAppointments returns once the collection c has been written
RoundTrip(c) == getAppointmentsFrom(serialize(c))

(* C16: for every appointment collection, deserialize(serialize(c)) has the
   same records in the same order with identical fields, so getAppointments
   after saveAppointment returns exactly the collection that was saved. *)
C16_RoundTrip ==
    \A appointment \in StorageInputs :
        RoundTrip(saveAppointment(appointment)) = saveAppointment(appointment)

(* C16, amended: for every appointment collection whose starts and ends are
   instants, deserialize(serialize(c)) has the same records in the same order
   with identical fields, and getAppointments after saveAppointment returns
   exactly the collection that was saved. *)
C16_RoundTripOfInstants ==
    /\ deserialize(serialize(Stored)) = Stored
    /\ \A appointment \in StorageInputs :
          ValidInstants(saveAppointment(appointment))
          => RoundTrip(saveAppointment(appointment)) = saveAppointment(appointment)

\* two records have been written and are read back, the second with a start
\* that is not at midnight
C16_Witness ==
    /\ store.kind = "array"
    /\ Len(Stored) = 2
    /\ ValidInstants(Stored)
    /\ Stored[2].start % MinutesPerDay # 0
    /\ Stored[1].start # Stored[2].start
    /\ deserialize(serialize(Stored)) = Stored

(* C17: for any malformed stored payload (not JSON, JSON that is not a
   sequence, or a sequence holding records with missing or invalid start or
   end), getAppointments returns the empty collection, and the next save or
   delete proceeds from that empty collection. *)
C17_MalformedIsEmpty ==
    store \in MalformedPayloads
    => /\ getAppointments = <<>>
       /\ \A appointment \in StorageInputs : saveAppointment(appointment) = <<appointment>>
       /\ \A id \in StorageIds : deleteAppointment(id) = <<>>

\* the ranges asked about: start < end, around the stored ranges
ProbeInstants == {StartLocal + 30 * k : k \in 1..5}
Probes == {p \in [start : ProbeInstants, end : ProbeInstants] : p.start < p.end}

\* the stored records a check with excludeId compares with
Others(excludeId) == IF excludeId = <<>> THEN Stored ELSE Without(Stored, excludeId[1])

(* C18: checkAvailability(start, end, excludeId) is false exactly when some
   stored record with an id other than excludeId has start < record.end and
   end > record.start; the test is symmetric in the two ranges, ranges that
   only touch at an endpoint do not collide, the type of the record plays no
   part, and only the record of excludeId is left out. *)
C18_CollisionTest ==
    \A p \in Probes : \A excludeId \in {<<>>} \cup {<<i>> : i \in StorageIds} :
        LET others == Others(excludeId) IN
        /\ checkAvailability(p.start, p.end, excludeId)
           = ~ \E i \in 1..Len(others) : p.start < others[i].end /\ p.end > others[i].start
        /\ checkAvailability(p.start, p.end, excludeId)
           = ~ \E i \in 1..Len(others) : Overlaps(others[i], p)
        /\ (\A i \in 1..Len(others) : p.end <= others[i].start \/ others[i].end <= p.start)
           => checkAvailability(p.start, p.end, excludeId)
        /\ \A k \in {"availability", "meeting"} :
             (\E i \in 1..Len(others) : others[i].type = k /\ Overlaps(p, others[i]))
             => ~ checkAvailability(p.start, p.end, excludeId)

\* the store holds an open slot and a meeting that touch; the range of the
\* meeting collides with the meeting only, the range of the open slot with the
\* open slot only, and the range that follows the meeting with neither
C18_Witness ==
    /\ Len(Stored) = 2
    /\ Stored[1].type = "availability" /\ Stored[2].type = "meeting"
    /\ Stored[1].end = Stored[2].start
    /\ ~ checkAvailability(Stored[2].start, Stored[2].end, <<>>)
    /\ checkAvailability(Stored[2].start, Stored[2].end, <<Stored[2].id>>)
    /\ ~ checkAvailability(Stored[1].start, Stored[1].end, <<>>)
    /\ checkAvailability(Stored[1].start, Stored[1].end, <<Stored[1].id>>)
    /\ checkAvailability(Stored[2].end, Stored[2].end + 30, <<>>)

-----------------------------------------------------------------------------
(* The booking form under several UTC offsets, with the date and time inputs *)

ZoneOffsets == {0 - 60, 0, 60}     \* west of UTC, UTC, east of UTC
ZoneDays    == {<<3>>}             \* the day of the cells clicked
ZoneDates   == {<<5>>}             \* the date picked in the date input: a Saturday
ZoneTimes   == {<<10, 15>>}        \* the time typed into the time input

InitZones ==
    /\ tz \in ZoneOffsets
    /\ now = StartLocal - tz
    /\ store = [kind |-> "absent", items |-> <<>>]
    /\ appointments = <<>>
    /\ currentUserRole = "colleague"
    /\ currentDate = LocalDay(now)
    /\ isModalOpen = FALSE
    /\ selectedSlot = <<>>
    /\ suggestionData = <<>>
    /\ title = "" /\ name = "" /\ date = <<>> /\ time = <<>>
    /\ duration = 30
    /\ error = ""
    /\ isProcessing = FALSE /\ aiError = ""
    /\ pending = <<>>
    /\ lastAlert = ""

\* the cells of the displayed grid clicked on: the occupied ones and those of ZoneDays
ZoneCells ==
    LET occupied == {<<LocalMidnight(<<LocalDay(appointments[i].start)>>),
                       FormatHHmm(appointments[i].start)>> : i \in 1..Len(appointments)}
        named    == {LocalMidnight(d) : d \in ZoneDays} \X InputTimes
    IN  {c \in occupied \cup named : c[1] \in weekDays /\ c[2] \in timeSlots}

NextZones ==
    \/ \E role \in Roles : setCurrentUserRole(role)
    \/ \E c \in ZoneCells : handleSlotClick(c[1], c[2])
    \/ \E v \in InputTitles : setTitle(v)
    \/ \E v \in InputNames : setName(v)
    \/ \E v \in ZoneDates : setDate(v)
    \/ \E v \in ZoneTimes : setTime(v)
    \/ onClose
    \/ handleSubmit

SpecZones == InitZones /\ [][NextZones]_vars

-----------------------------------------------------------------------------
(* Properties of the scheduler *)

\* the answer of the last request issued is in, or lost: every call still in
\* flight was issued before it
OnlyOlderInFlight == \A j \in 1..Len(pending) : pending[j].superseded

(* C13: when a request is issued before a prior one has resolved, the
   suggestion that finally takes effect (selected slot, pre-filled form,
   displayed week) is that of the most recently issued request: the answer to
   an older request that arrives after it changes none of them. *)
C13_LastRequestWins ==
    [][(pending # <<>> /\ OnlyOlderInFlight)
       => \A i \in 1..Len(pending), outcome \in OracleOutcomes :
             OracleSettles(i, outcome)
             => UNCHANGED <<currentDate, selectedSlot, suggestionData, isModalOpen,
                            title, date, time, duration>>]_vars

(* C14: every suggestion request eventually ends: the processing flag raised
   by a request is cleared, whether the oracle call answers, fails or does not
   answer in time. *)
C14_RequestEnds == isProcessing ~> ~ isProcessing

UnparseableError == "I couldn't quite understand that date or time."

(* C15: a transport failure of the oracle call is never reported as an
   unparseable input. *)
C15_FailureIsNotUnparseable ==
    [][pending # <<>>
       => \A i \in 1..Len(pending) :
             OracleSettles(i, [kind |-> "throws", answer |-> <<>>])
             => aiError' # UnparseableError]_vars

-----------------------------------------------------------------------------
(* Properties of the form's date and time *)

\* the form is open on a clicked cell and its date and time are the pre-filled ones
FormUntouched ==
    /\ isModalOpen
    /\ selectedSlot # <<>>
    /\ suggestionData = <<>>
    /\ date = ISODate(selectedSlot[1].date)
    /\ time = selectedSlot[1].time

\* the record the store holds under the identifier of r
SameId(c, r) == SelectSeq(c, LAMBDA a : a.id = r.id)

(* C19: a record saved from a form opened on cell (d, t) with the pre-filled
   date and time left untouched starts at local day d and time t, for every
   UTC offset: the clicked cell shows the saved record, and a colleague's
   meeting keeps the start of the availability it consumes. *)
C19_SavedAtClickedCell ==
    [][(FormUntouched /\ SubmitSucceeds)
       => LET d == selectedSlot[1].date
              t == selectedSlot[1].time
              shown == CellAppointment(StoredNext, d, t)
          IN  /\ shown # <<>>
              /\ shown[1].start = SetHours(d, t)
              /\ shown[1].title = title
              /\ formExisting # <<>>
                 => SameId(StoredNext, formExisting[1])[1].start = formExisting[1].start]_vars

\* the record starts at a cell of the grid: a weekday, a half hour of the
\* working hours
OnGrid(apt) ==
    /\ LocalDay(apt.start) % 7 \in 0..4
    /\ FormatHHmm(apt.start) \in timeSlots

(* C20: in every reachable state every stored appointment starts exactly at a
   grid cell (a half-hour boundary within working hours on a weekday), so that
   it is rendered at its starting cell. *)
C20_StartsAtGridCell == \A i \in 1..Len(Stored) : OnGrid(Stored[i])

====
